---- MODULE Spec2Model ----
(***************************************************************************)
(* Model of src/install.rs of coreos-installer: the install pipeline       *)
(* (install, report_busy_partitions, write_disk, the postprocessing steps  *)
(* and clear_partition_table) as a sequential state machine.               *)
(*                                                                         *)
(* pc is the position of the single thread of control.  trace is the       *)
(* ordered history of what the program did to the outside world: the       *)
(* calls it made on the device and its collaborators, and the lines it     *)
(* wrote to standard error.                                                *)
(***************************************************************************)
EXTENDS Integers, Sequences, FiniteSets, TLC

\* ---------------------------------------------------------------- bounds
\* largest number of artifacts the image location resolves to
MaxSources == 2
\* largest number of busy partitions report_busy_partitions enumerates
MaxParts == 2

VARIABLES
    config,     \* the InstallConfig record (read-only input)
    pc,         \* position in install / write_disk / clear_partition_table
    location,   \* what config.location resolved to (sources, signature policy)
    dest,       \* the File opened on config.device
    dev,        \* contents of the target device
    ktable,     \* the kernel's view of the device's partition table
    mounted,    \* whether the boot partition is mounted by write_disk
    boot,       \* effects of the postprocessing steps on the boot partition
    wdResult,   \* the Result returned by write_disk
    wdDev,      \* device and kernel table as they were when write_disk returned
    cptResult,  \* the Result returned by clear_partition_table
    busyResult, \* the Result returned by report_busy_partitions
    exclErr,    \* the error of the exclusive-access reread (e at line 114)
    result,     \* the Result returned by install
    trace,      \* ordered history of calls and diagnostics
    fs,         \* files of the boot partition a postprocessing function works on
    call,       \* the postprocessing function under way, its arguments and locals
    ret         \* what that function returned

\* the state of the install pipeline
installvars == <<config, pc, location, dest, dev, ktable, mounted, boot, wdResult,
                 wdDev, cptResult, busyResult, exclErr, result, trace>>
\* the state of one postprocessing function looked at on its own
stepvars == <<fs, call, ret>>

vars == <<installvars, stepvars>>

\* ------------------------------------------------------------ Result<()>
\* An error is its chain of messages, outermost context first.
Running == [state |-> "running", chain |-> <<>>]
Ok == [state |-> "ok", chain |-> <<>>]
Err(chain) == [state |-> "err", chain |-> chain]
\* error.chain_err(|| ctx): wrap the error in one more context frame
ChainErr(ctx, chain) == <<ctx>> \o chain

\* ----------------------------------------------------------------- trace
Call(what) == [kind |-> "call", what |-> what, chain |-> <<>>]
Eprint(what) == [kind |-> "eprint", what |-> what, chain |-> <<>>]

\* ChainedError::display_chain(&err): the error and every cause below it
DisplayChainTopOnly(chain) == [kind |-> "eprint", what |-> "display_chain", chain |-> <<chain[1]>>]
DisplayChain(chain) == [kind |-> "eprint", what |-> "display_chain", chain |-> chain]

\* ---------------------------------------------------------------- config
PlatformValues == {"none", "metal", "other"}
IgnitionValues == {"none", "plain", "hashed"}

InstallConfig ==
    [insecure : BOOLEAN,
     preserve_on_error : BOOLEAN,
     ignition : IgnitionValues,
     firstboot_kargs : BOOLEAN,
     append_kargs : BOOLEAN,
     delete_kargs : BOOLEAN,
     platform : PlatformValues,
     network_config : BOOLEAN]

\* ---------------------------------------------------------------- device
\* head is the first MiB of the device (where the partition table lives),
\* tail is the rest.
OrigDev == [head |-> "orig", tail |-> "orig"]

\* what a partition-table reread makes the kernel see
TableOf(d) == IF d.head = "zero" THEN "none" ELSE d.head

NoBoot == [ignition |-> "none", firstboot |-> "none", kargs |-> "none",
           platform |-> "none", network |-> "none"]

\* no function is looked at on its own while install runs
NoFs == [kind |-> "none"]
NoCall == [fn |-> "none"]

Init ==
    /\ config \in InstallConfig
    /\ pc = "sources"
    /\ location = [n |-> -1, signature |-> "unknown", require_signature |-> "unknown"]
    /\ dest = [open |-> "no", block |-> "unknown", offset |-> "start"]
    /\ dev = OrigDev
    /\ ktable = "orig"
    /\ mounted = FALSE
    /\ boot = NoBoot
    /\ wdResult = Running
    /\ wdDev = [dev |-> OrigDev, ktable |-> "orig"]
    /\ cptResult = Running
    /\ busyResult = Running
    /\ exclErr = <<>>
    /\ result = Running
    /\ trace = <<>>
    /\ fs = NoFs
    /\ call = NoCall
    /\ ret = Running

\* install returns Err(chain): `?` or bail!
Return(r) ==
    /\ result' = r
    /\ pc' = IF r.state = "ok" THEN "done" ELSE "failed"

YesNo(b) == IF b THEN "yes" ELSE "no"

Emit(entries) == trace' = trace \o entries

\* ------------------------------------------------ install: image source
\* lines 88-92: sources()?, pop() or "no artifacts found", bail on a second one
Sources ==
    /\ pc = "sources"
    /\ \/ /\ Return(Err(<<"resolving sources">>))
          /\ UNCHANGED location
       \/ \E n \in 0..MaxSources, sig \in BOOLEAN :
            /\ location' = [location EXCEPT !.n = n,
                               !.signature = IF n = 0 THEN "unknown"
                                             ELSE IF sig THEN "some" ELSE "none"]
            /\ IF n = 0 THEN Return(Err(<<"no artifacts found">>))
               ELSE IF n > 1 THEN Return(Err(<<"found multiple artifacts">>))
               ELSE /\ pc' = "sigcheck"
                    /\ UNCHANGED result
    /\ UNCHANGED stepvars
    /\ UNCHANGED <<config, dest, dev, ktable, mounted, boot, wdResult, wdDev,
                   cptResult, busyResult, exclErr, trace>>

\* lines 93-99: the decision taken on a source's signature
SignaturePolicyLax(signature_is_none, require_signature, insecure) ==
    IF signature_is_none /\ require_signature THEN "warn" ELSE "ok"
SignaturePolicy(signature_is_none, require_signature, insecure) ==
    IF signature_is_none /\ require_signature
    THEN (IF insecure THEN "warn" ELSE "bail")
    ELSE "ok"

SignatureCheck ==
    /\ pc = "sigcheck"
    /\ \E req \in BOOLEAN :
         LET policy == SignaturePolicy(location.signature = "none", req, config.insecure) IN
         /\ location' = [location EXCEPT !.require_signature = YesNo(req)]
         /\ IF policy = "bail"
            THEN /\ Return(Err(<<"--insecure not specified and signature not found">>))
                 /\ UNCHANGED trace
            ELSE /\ pc' = "open"
                 /\ UNCHANGED result
                 /\ IF policy = "warn"
                    THEN Emit(<<Eprint("Signature not found; skipping verification as requested")>>)
                    ELSE UNCHANGED trace
    /\ UNCHANGED stepvars
    /\ UNCHANGED <<config, dest, dev, ktable, mounted, boot, wdResult, wdDev,
                   cptResult, busyResult, exclErr>>

\* ------------------------------------------------ install: acquire device
\* lines 102-105: open config.device for writing
OpenDest ==
    /\ pc = "open"
    /\ \/ /\ Return(Err(<<"opening device", "io error">>))
          /\ dest' = [dest EXCEPT !.open = "failed"]
       \/ /\ dest' = [dest EXCEPT !.open = "yes"]
          /\ pc' = "blockcheck"
          /\ UNCHANGED result
    /\ UNCHANGED stepvars
    /\ UNCHANGED <<config, location, dev, ktable, mounted, boot, wdResult, wdDev,
                   cptResult, busyResult, exclErr, trace>>

\* lines 106-113: metadata()?, bail unless the file is a block device
BlockCheck ==
    /\ pc = "blockcheck"
    /\ \/ /\ Return(Err(<<"getting metadata for device", "io error">>))
          /\ UNCHANGED dest
       \/ \E is_block_device \in BOOLEAN :
            /\ dest' = [dest EXCEPT !.block = YesNo(is_block_device)]
            /\ IF is_block_device
               THEN pc' = "exclusive" /\ UNCHANGED result
               ELSE Return(Err(<<"device is not a block device">>))
    /\ UNCHANGED stepvars
    /\ UNCHANGED <<config, location, dev, ktable, mounted, boot, wdResult, wdDev,
                   cptResult, busyResult, exclErr, trace>>

\* line 114: reread_partition_table(&mut dest) as the exclusive-access probe
Exclusive ==
    /\ pc = "exclusive"
    /\ Emit(<<Call("reread_partition_table")>>)
    /\ \/ /\ ktable' = TableOf(dev)
          /\ pc' = "sector"
          /\ UNCHANGED exclErr
       \/ /\ exclErr' = <<"reread_partition_table error">>
          /\ pc' = "report"
          /\ UNCHANGED ktable
    /\ UNCHANGED stepvars
    /\ UNCHANGED <<config, location, dest, dev, mounted, boot, wdResult, wdDev,
                   cptResult, busyResult, result>>

\* lines 142-161: report_busy_partitions.  nparts partitions are busy; when
\* failAt > 0, get_holders fails on partition number failAt.
BusyLines(k) == [i \in 1..k |-> Eprint("partition in use")]

ReportBusyPartitions ==
    /\ pc = "report"
    /\ \/ /\ busyResult' = Err(<<"get_busy_partitions error">>)
          /\ Emit(<<Call("report_busy_partitions")>>)
       \/ \E nparts \in 0..MaxParts, failAt \in 0..MaxParts :
            /\ failAt <= nparts
            /\ IF nparts = 0
               THEN /\ busyResult' = Ok
                    /\ Emit(<<Call("report_busy_partitions")>>)
               ELSE /\ busyResult' = IF failAt = 0 THEN Ok ELSE Err(<<"get_holders error">>)
                    /\ Emit(<<Call("report_busy_partitions"), Eprint("Partitions in use on device:")>>
                            \o BusyLines(IF failAt = 0 THEN nparts ELSE failAt - 1))
    /\ pc' = "report_ret"
    /\ UNCHANGED stepvars
    /\ UNCHANGED <<config, location, dest, dev, ktable, mounted, boot, wdResult,
                   wdDev, cptResult, exclErr, result>>

\* lines 115-116: `report_busy_partitions(..)?` then the reread error with context
ExclusiveContext == "checking for exclusive access to device"

ExclusiveFailResult(busy, e) ==
    IF busy.state = "err" THEN busy ELSE Err(ChainErr(ExclusiveContext, e))

ExclusiveFail ==
    /\ pc = "report_ret"
    /\ Return(ExclusiveFailResult(busyResult, exclErr))
    /\ UNCHANGED stepvars
    /\ UNCHANGED <<config, location, dest, dev, ktable, mounted, boot, wdResult,
                   wdDev, cptResult, busyResult, exclErr, trace>>

\* ------------------------------------------------------------ write_disk
\* lines 176-181: is any postprocessing field set
NeedsPostprocessNoNetwork(cfg) ==
    \/ cfg.ignition # "none"
    \/ cfg.firstboot_kargs
    \/ cfg.append_kargs
    \/ cfg.delete_kargs
    \/ cfg.platform # "none"
NeedsPostprocess(cfg) ==
    \/ cfg.ignition # "none"
    \/ cfg.firstboot_kargs
    \/ cfg.append_kargs
    \/ cfg.delete_kargs
    \/ cfg.platform # "none"
    \/ cfg.network_config

\* where write_disk goes after a step that succeeded (lines 168-213)
WdNextLazy(p, cfg) ==
    CASE p = "sector" -> "write_image"
      [] p = "write_image" -> IF NeedsPostprocess(cfg) THEN "reread" ELSE "wd_ok"
      [] p = "reread" -> "settle"
      [] p = "settle" -> IF NeedsPostprocess(cfg) THEN "mount" ELSE "wd_ok"
      [] p = "mount" -> "ignition"
      [] p = "ignition" -> "firstboot"
      [] p = "firstboot" -> "kargs"
      [] p = "kargs" -> "platform"
      [] p = "platform" -> "network"
      [] p = "network" -> "block_end"
WdNextSwapped(p, cfg) ==
    CASE p = "sector" -> "write_image"
      [] p = "write_image" -> "reread"
      [] p = "reread" -> "settle"
      [] p = "settle" -> IF NeedsPostprocess(cfg) THEN "mount" ELSE "wd_ok"
      [] p = "mount" -> "ignition"
      [] p = "ignition" -> "firstboot"
      [] p = "firstboot" -> "platform"
      [] p = "platform" -> "kargs"
      [] p = "kargs" -> "network"
      [] p = "network" -> "block_end"
WdNext(p, cfg) ==
    CASE p = "sector" -> "write_image"
      [] p = "write_image" -> "reread"
      [] p = "reread" -> "settle"
      [] p = "settle" -> IF NeedsPostprocess(cfg) THEN "mount" ELSE "wd_ok"
      [] p = "mount" -> "ignition"
      [] p = "ignition" -> "firstboot"
      [] p = "firstboot" -> "kargs"
      [] p = "kargs" -> "platform"
      [] p = "platform" -> "network"
      [] p = "network" -> "block_end"

\* a step of write_disk succeeded: go on with the next one
WdGoOn ==
    /\ pc' = WdNext(pc, config)
    /\ UNCHANGED wdResult

\* write_disk returns Err through `?` outside the block that owns `mount`
WdReturn(r) ==
    /\ wdResult' = r
    /\ pc' = "wd_ret"

\* `?` inside the block that owns `mount` (lines 183-211): the value is
\* dropped before the function returns
WdReturnInScope(r) ==
    /\ wdResult' = r
    /\ pc' = "scope_exit"

\* line 168: get_sector_size(dest)?
GetSectorSize ==
    /\ pc = "sector"
    /\ Emit(<<Call("get_sector_size")>>)
    /\ \/ WdReturn(Err(<<"get_sector_size error">>))
       \/ WdGoOn
    /\ UNCHANGED stepvars
    /\ UNCHANGED <<config, location, dest, dev, ktable, mounted, boot, wdDev,
                   cptResult, busyResult, exclErr, result>>

\* write_image of crate::download: streams the artifact onto the device
\* from offset 0; a failure leaves any prefix of the image written.
WriteImageOutcomes ==
    {[ok |-> TRUE, dev |-> [head |-> "image", tail |-> "image"]]}
    \cup {[ok |-> FALSE, dev |-> d] :
            d \in {[head |-> "orig", tail |-> "orig"],
                   [head |-> "partial", tail |-> "orig"],
                   [head |-> "image", tail |-> "orig"],
                   [head |-> "image", tail |-> "partial"]}}

\* line 171: write_image(source, dest, true, Some(sector_size))?
WriteImage ==
    /\ pc = "write_image"
    /\ Emit(<<Call("write_image")>>)
    /\ \E o \in WriteImageOutcomes :
         /\ dev' = o.dev
         /\ dest' = [dest EXCEPT !.offset = IF o.dev = dev THEN @ ELSE "elsewhere"]
         /\ IF o.ok THEN WdGoOn ELSE WdReturn(Err(<<"write_image error">>))
    /\ UNCHANGED stepvars
    /\ UNCHANGED <<config, location, ktable, mounted, boot, wdDev,
                   cptResult, busyResult, exclErr, result>>

\* line 172: reread_partition_table(dest)?
Reread ==
    /\ pc = "reread"
    /\ Emit(<<Call("reread_partition_table")>>)
    /\ \/ /\ WdReturn(Err(<<"reread_partition_table error">>))
          /\ UNCHANGED ktable
       \/ /\ ktable' = TableOf(dev)
          /\ WdGoOn
    /\ UNCHANGED stepvars
    /\ UNCHANGED <<config, location, dest, dev, mounted, boot, wdDev,
                   cptResult, busyResult, exclErr, result>>

\* lines 173-182: udev_settle()?, then the test of the postprocessing fields
Settle ==
    /\ pc = "settle"
    /\ Emit(<<Call("udev_settle")>>)
    /\ \/ WdReturn(Err(<<"udev_settle error">>))
       \/ WdGoOn
    /\ UNCHANGED stepvars
    /\ UNCHANGED <<config, location, dest, dev, ktable, mounted, boot, wdDev,
                   cptResult, busyResult, exclErr, result>>

\* lines 183-184: Disk::new(..).mount_partition_by_label("boot", ..)?
Mount ==
    /\ pc = "mount"
    /\ Emit(<<Call("mount_partition_by_label")>>)
    /\ \/ /\ WdReturn(Err(<<"mount_partition_by_label error">>))
          /\ UNCHANGED mounted
       \/ /\ mounted' = TRUE
          /\ WdGoOn
    /\ UNCHANGED stepvars
    /\ UNCHANGED <<config, location, dest, dev, ktable, boot, wdDev,
                   cptResult, busyResult, exclErr, result>>

\* ------------------------------------------------- postprocessing steps
\* What a step function can return, and what it has done to the boot
\* partition by then: "none" nothing, "partial" some of its writes, "done"
\* all of them.
StepOk(effect) == [ok |-> TRUE, chain |-> <<>>, effect |-> effect]
StepErr(chain, effect) == [ok |-> FALSE, chain |-> chain, effect |-> effect]

\* lines 64-82: IgnitionHash::validate
ValidateErrors ==
    {<<"copying input to hasher", "io error">>, <<"hash mismatch">>}

\* lines 217-254: write_ignition
WriteIgnitionOutcomes(hashed) ==
    {StepOk("done")}
    \cup (IF hashed
          THEN {StepErr(ChainErr("failed to validate Ignition configuration digest", e), "none") :
                    e \in ValidateErrors}
               \cup {StepErr(<<"rewinding Ignition configuration file", "io error">>, "none")}
          ELSE {})
    \cup {StepErr(<<"creating Ignition config directory", "io error">>, "none"),
          StepErr(<<"opening destination Ignition config", "io error">>, "partial"),
          StepErr(<<"writing Ignition config", "io error">>, "partial")}

\* lines 257-275: write_firstboot_kargs
WriteFirstbootKargsOutcomes ==
    {StepOk("done"),
     StepErr(<<"opening first-boot file", "io error">>, "none"),
     StepErr(<<"writing first-boot kernel arguments", "io error">>, "partial")}

\* lines 278-318: the errors of bls_entry_delete_and_append_kargs
KargsTransformErrors ==
    {"Multiple 'options' lines found", "Couldn't locate 'options' line"}

\* lines 346-355: the error of bls_entry_write_platform
PlatformTransformErrors == {"Couldn't locate platform ID"}

\* lines 358-400: edit_bls_entries with a transform that can fail with
\* transformErrors.  A failure on a later entry leaves the earlier entries
\* rewritten ("partial"); a directory without .conf entries is left alone.
EditBlsEntriesOutcomes(transformErrors) ==
    {StepOk("done"), StepOk("none")}
    \cup {StepErr(c, e) :
            c \in {<<"reading directory", "io error">>,
                   <<"opening bootloader config", "io error">>,
                   <<"reading entry", "io error">>,
                   <<"seeking entry", "io error">>,
                   <<"truncating entry", "io error">>}
                  \cup {<<"modifying entry", t>> : t \in transformErrors},
            e \in {"none", "partial"}}
    \cup {StepErr(<<"writing entry", "io error">>, "partial")}

\* lines 328-341: write_platform
WritePlatformOutcomes(platform) ==
    IF platform = "metal"
    THEN {StepOk("none")}
    ELSE EditBlsEntriesOutcomes(PlatformTransformErrors)

\* lines 403-431: copy_network_config
CopyNetworkConfigOutcomes ==
    {StepOk("done"),
     StepErr(<<"creating destination networking config directory", "io error">>, "none"),
     StepErr(<<"reading directory", "io error">>, "partial"),
     StepErr(<<"Copying networking config", "io error">>, "partial")}

\* one `if let Some(..)` arm of lines 185-210: skipped when the field is
\* unset, else the step runs and its error, under the context frames ctx of
\* its chain_err (none for copy_network_config), ends write_disk
PostStep(field, requested, entries, outcomes, ctx) ==
    IF ~requested
    THEN /\ WdGoOn
         /\ UNCHANGED <<boot, trace>>
    ELSE /\ Emit(entries)
         /\ \E o \in outcomes :
              /\ boot' = [boot EXCEPT ![field] = o.effect]
              /\ IF o.ok THEN WdGoOn ELSE WdReturnInScope(Err(ctx \o o.chain))

\* lines 185-188
StepIgnition ==
    /\ pc = "ignition"
    /\ PostStep("ignition", config.ignition # "none",
                <<Call("write_ignition"), Eprint("Writing Ignition config")>>,
                WriteIgnitionOutcomes(config.ignition = "hashed"),
                <<"writing Ignition configuration">>)
    /\ UNCHANGED stepvars
    /\ UNCHANGED <<config, location, dest, dev, ktable, mounted, wdDev,
                   cptResult, busyResult, exclErr, result>>

\* lines 189-192
StepFirstboot ==
    /\ pc = "firstboot"
    /\ PostStep("firstboot", config.firstboot_kargs,
                <<Call("write_firstboot_kargs"), Eprint("Writing first-boot kernel arguments")>>,
                WriteFirstbootKargsOutcomes, <<"writing firstboot kargs">>)
    /\ UNCHANGED stepvars
    /\ UNCHANGED <<config, location, dest, dev, ktable, mounted, wdDev,
                   cptResult, busyResult, exclErr, result>>

\* lines 193-204
StepKargs ==
    /\ pc = "kargs"
    /\ PostStep("kargs", config.append_kargs \/ config.delete_kargs,
                <<Eprint("Modifying kernel arguments"), Call("edit_bls_entries kargs")>>,
                EditBlsEntriesOutcomes(KargsTransformErrors),
                <<"deleting and appending kargs">>)
    /\ UNCHANGED stepvars
    /\ UNCHANGED <<config, location, dest, dev, ktable, mounted, wdDev,
                   cptResult, busyResult, exclErr, result>>

\* lines 205-207
StepPlatform ==
    /\ pc = "platform"
    /\ PostStep("platform", config.platform # "none",
                IF config.platform = "metal"
                THEN <<Call("write_platform")>>
                ELSE <<Call("write_platform"), Eprint("Setting platform")>>,
                WritePlatformOutcomes(config.platform), <<"writing platform ID">>)
    /\ UNCHANGED stepvars
    /\ UNCHANGED <<config, location, dest, dev, ktable, mounted, wdDev,
                   cptResult, busyResult, exclErr, result>>

\* lines 208-210
StepNetwork ==
    /\ pc = "network"
    /\ PostStep("network", config.network_config,
                <<Call("copy_network_config"), Eprint("Copying networking configuration")>>,
                CopyNetworkConfigOutcomes, <<>>)
    /\ UNCHANGED stepvars
    /\ UNCHANGED <<config, location, dest, dev, ktable, mounted, wdDev,
                   cptResult, busyResult, exclErr, result>>

\* Drop of the Mount of crate::blockdev: the mountpoint is unmounted
DropMount(m) == FALSE

\* what leaving the block that owns `mount` does to it (lines 183-211)
ScopeExitLeak(m) == m
ScopeExit(m) == DropMount(m)

\* line 211: the block ends normally after the last step
BlockEnd ==
    /\ pc = "block_end"
    /\ WdReturnInScope(Ok)
    /\ UNCHANGED stepvars
    /\ UNCHANGED <<config, location, dest, dev, ktable, mounted, boot, wdDev,
                   cptResult, busyResult, exclErr, result, trace>>

\* `mount` goes out of scope, by the end of the block or by `?` in it
MountScopeExit ==
    /\ pc = "scope_exit"
    /\ mounted' = ScopeExit(mounted)
    /\ Emit(<<Call("umount")>>)
    /\ pc' = "wd_ret"
    /\ UNCHANGED stepvars
    /\ UNCHANGED <<config, location, dest, dev, ktable, boot, wdResult, wdDev,
                   cptResult, busyResult, exclErr, result>>

\* line 213 without postprocessing: Ok(())
WdOk ==
    /\ pc = "wd_ok"
    /\ WdReturn(Ok)
    /\ UNCHANGED stepvars
    /\ UNCHANGED <<config, location, dest, dev, ktable, mounted, boot, wdDev,
                   cptResult, busyResult, exclErr, result, trace>>

\* ------------------------------------------- install: outcome of write_disk
\* line 122: `if let Err(err) = write_disk(..)`
WriteDiskReturn ==
    /\ pc = "wd_ret"
    /\ wdDev' = [dev |-> dev, ktable |-> ktable]
    /\ pc' = IF wdResult.state = "ok" THEN "complete" ELSE "log_err"
    /\ UNCHANGED stepvars
    /\ UNCHANGED <<config, location, dest, dev, ktable, mounted, boot, wdResult,
                   cptResult, busyResult, exclErr, result, trace>>

\* line 125: eprint!("{}", ChainedError::display_chain(&err))
LogErr ==
    /\ pc = "log_err"
    /\ Emit(<<DisplayChain(wdResult.chain)>>)
    /\ pc' = "cleanup"
    /\ UNCHANGED stepvars
    /\ UNCHANGED <<config, location, dest, dev, ktable, mounted, boot, wdResult,
                   wdDev, cptResult, busyResult, exclErr, result>>

\* line 128: does the cleanup clear the partition table
RecoveryWipesAlways(cfg) == TRUE
RecoveryWipes(cfg) == ~cfg.preserve_on_error

\* lines 128-132: keep the table, or call clear_partition_table
Cleanup ==
    /\ pc = "cleanup"
    /\ IF RecoveryWipes(config)
       THEN /\ Emit(<<Call("clear_partition_table")>>)
            /\ pc' = "cpt_seek"
       ELSE /\ Emit(<<Eprint("Preserving partition table as requested")>>)
            /\ pc' = "bail"
    /\ UNCHANGED stepvars
    /\ UNCHANGED <<config, location, dest, dev, ktable, mounted, boot, wdResult,
                   wdDev, cptResult, busyResult, exclErr, result>>

\* -------------------------------------------------- clear_partition_table
\* the order of the steps of lines 436-447
CptNextRereadEarly(p) ==
    CASE p = "cpt_seek" -> "cpt_write"
      [] p = "cpt_write" -> "cpt_flush"
      [] p = "cpt_flush" -> "cpt_reread"
      [] p = "cpt_reread" -> "cpt_sync"
      [] p = "cpt_sync" -> "cpt_settle"
      [] p = "cpt_settle" -> "cpt_ok"
CptNext(p) ==
    CASE p = "cpt_seek" -> "cpt_write"
      [] p = "cpt_write" -> "cpt_flush"
      [] p = "cpt_flush" -> "cpt_sync"
      [] p = "cpt_sync" -> "cpt_reread"
      [] p = "cpt_reread" -> "cpt_settle"
      [] p = "cpt_settle" -> "cpt_ok"

CptGoOn ==
    /\ pc' = CptNext(pc)
    /\ UNCHANGED cptResult

CptReturn(r) ==
    /\ cptResult' = r
    /\ pc' = "cpt_ret"

\* lines 435-437: eprintln, dest.seek(SeekFrom::Start(0))
CptSeek ==
    /\ pc = "cpt_seek"
    /\ Emit(<<Eprint("Clearing partition table"), Call("seek")>>)
    /\ \/ /\ CptReturn(Err(<<"seeking to start of disk", "io error">>))
          /\ UNCHANGED dest
       \/ /\ dest' = [dest EXCEPT !.offset = "start"]
          /\ CptGoOn
    /\ UNCHANGED stepvars
    /\ UNCHANGED <<config, location, dev, ktable, mounted, boot, wdResult,
                   wdDev, busyResult, exclErr, result>>

\* lines 438-439: 1 MiB of zeroes written at the file offset
WriteZeroesShort(d, offset) ==
    IF offset = "start" THEN [d EXCEPT !.head = "zeroed_partly"]
    ELSE [d EXCEPT !.tail = "zeroed_partly"]
WriteZeroes(d, offset) ==
    IF offset = "start" THEN [d EXCEPT !.head = "zero"]
    ELSE [d EXCEPT !.tail = "zeroed_partly"]

\* a write_all that fails has written none or some of the zeroes
WriteZeroesFailed(d, offset) ==
    {d, IF offset = "start" THEN [d EXCEPT !.head = "zeroed_partly"]
        ELSE [d EXCEPT !.tail = "zeroed_partly"]}

CptWrite ==
    /\ pc = "cpt_write"
    /\ Emit(<<Call("write_zeroes")>>)
    /\ \/ /\ \E d \in WriteZeroesFailed(dev, dest.offset) : dev' = d
          /\ CptReturn(Err(<<"clearing partition table", "io error">>))
       \/ /\ dev' = WriteZeroes(dev, dest.offset)
          /\ CptGoOn
    /\ dest' = [dest EXCEPT !.offset = IF dev' = dev THEN @ ELSE "elsewhere"]
    /\ UNCHANGED stepvars
    /\ UNCHANGED <<config, location, ktable, mounted, boot, wdResult,
                   wdDev, busyResult, exclErr, result>>

\* lines 441-442: dest.flush()
CptFlush ==
    /\ pc = "cpt_flush"
    /\ Emit(<<Call("flush")>>)
    /\ \/ CptReturn(Err(<<"flushing partition table to disk", "io error">>))
       \/ CptGoOn
    /\ UNCHANGED stepvars
    /\ UNCHANGED <<config, location, dest, dev, ktable, mounted, boot, wdResult,
                   wdDev, busyResult, exclErr, result>>

\* lines 443-444: dest.sync_all()
CptSync ==
    /\ pc = "cpt_sync"
    /\ Emit(<<Call("sync_all")>>)
    /\ \/ CptReturn(Err(<<"syncing partition table to disk", "io error">>))
       \/ CptGoOn
    /\ UNCHANGED stepvars
    /\ UNCHANGED <<config, location, dest, dev, ktable, mounted, boot, wdResult,
                   wdDev, busyResult, exclErr, result>>

\* line 445: reread_partition_table(dest)?
CptReread ==
    /\ pc = "cpt_reread"
    /\ Emit(<<Call("reread_partition_table")>>)
    /\ \/ /\ CptReturn(Err(<<"reread_partition_table error">>))
          /\ UNCHANGED ktable
       \/ /\ ktable' = TableOf(dev)
          /\ CptGoOn
    /\ UNCHANGED stepvars
    /\ UNCHANGED <<config, location, dest, dev, mounted, boot, wdResult,
                   wdDev, busyResult, exclErr, result>>

\* line 446: udev_settle()?
CptSettle ==
    /\ pc = "cpt_settle"
    /\ Emit(<<Call("udev_settle")>>)
    /\ \/ CptReturn(Err(<<"udev_settle error">>))
       \/ CptGoOn
    /\ UNCHANGED stepvars
    /\ UNCHANGED <<config, location, dest, dev, ktable, mounted, boot, wdResult,
                   wdDev, busyResult, exclErr, result>>

\* line 447: Ok(())
CptOk ==
    /\ pc = "cpt_ok"
    /\ CptReturn(Ok)
    /\ UNCHANGED stepvars
    /\ UNCHANGED <<config, location, dest, dev, ktable, mounted, boot, wdResult,
                   wdDev, busyResult, exclErr, result, trace>>

\* ------------------------------------------------- install: final result
\* line 131: `clear_partition_table(&mut dest)?`
ClearReturn ==
    /\ pc = "cpt_ret"
    /\ IF cptResult.state = "err"
       THEN Return(cptResult)
       ELSE pc' = "bail" /\ UNCHANGED result
    /\ UNCHANGED stepvars
    /\ UNCHANGED <<config, location, dest, dev, ktable, mounted, boot, wdResult,
                   wdDev, cptResult, busyResult, exclErr, trace>>

\* line 135: the error install returns after the cleanup
InstallFailed == <<"install failed">>
FailureChainOfCause(cause) == cause
FailureChain(cause) == InstallFailed

Bail ==
    /\ pc = "bail"
    /\ Return(Err(FailureChain(wdResult.chain)))
    /\ UNCHANGED stepvars
    /\ UNCHANGED <<config, location, dest, dev, ktable, mounted, boot, wdResult,
                   wdDev, cptResult, busyResult, exclErr, trace>>

\* lines 138-139: eprintln!("Install complete."); Ok(())
Complete ==
    /\ pc = "complete"
    /\ Emit(<<Eprint("Install complete.")>>)
    /\ Return(Ok)
    /\ UNCHANGED stepvars
    /\ UNCHANGED <<config, location, dest, dev, ktable, mounted, boot, wdResult,
                   wdDev, cptResult, busyResult, exclErr>>

Next ==
    \/ Sources
    \/ SignatureCheck
    \/ OpenDest
    \/ BlockCheck
    \/ Exclusive
    \/ ReportBusyPartitions
    \/ ExclusiveFail
    \/ GetSectorSize
    \/ WriteImage
    \/ Reread
    \/ Settle
    \/ Mount
    \/ StepIgnition
    \/ StepFirstboot
    \/ StepKargs
    \/ StepPlatform
    \/ StepNetwork
    \/ BlockEnd
    \/ MountScopeExit
    \/ WdOk
    \/ WriteDiskReturn
    \/ LogErr
    \/ Cleanup
    \/ CptSeek
    \/ CptWrite
    \/ CptFlush
    \/ CptSync
    \/ CptReread
    \/ CptSettle
    \/ CptOk
    \/ ClearReturn
    \/ Bail
    \/ Complete

Spec == Init /\ [][Next]_vars

\* =================================================================
\* Properties
\* =================================================================
Terminal == pc \in {"done", "failed"}

\* positions of the trace at which `what` was called
Calls(what) == {i \in DOMAIN trace : trace[i] = Call(what)}
Called(what) == Calls(what) # {}

\* write_disk has returned an error
WriteDiskFailed == wdResult.state = "err" /\ pc \notin {"scope_exit", "wd_ret"}

\* the operations clear_partition_table performs before its reread
WipeCalls == {Call("seek"), Call("write_zeroes"), Call("flush"), Call("sync_all")}

\* the line line 125 prints for the error write_disk returned, in full
LoggedCause == [kind |-> "eprint", what |-> "display_chain", chain |-> wdResult.chain]
LogPositions == {i \in DOMAIN trace : trace[i] = LoggedCause}

\* ----------------------------------------------------------------- C1
\* C1: when write_disk fails, recovery runs once and is never retried:
\* clear_partition_table is called exactly once if preserve_on_error is
\* false, and with preserve_on_error true nothing is done to the device
\* after the failure (no call at all follows the logged error); it is never
\* called before write_disk has failed, so never on a run where it succeeded.
C1_RecoveryOnce ==
    /\ Cardinality(Calls("clear_partition_table")) <= 1
    /\ Cardinality(Calls("seek")) <= 1
    /\ Cardinality(Calls("write_zeroes")) <= 1
    /\ (Terminal /\ WriteDiskFailed) =>
          Cardinality(Calls("clear_partition_table"))
              = (IF config.preserve_on_error THEN 0 ELSE 1)
    /\ config.preserve_on_error =>
          /\ \A i \in DOMAIN trace : trace[i] \notin WipeCalls
          /\ \A i \in LogPositions : \A j \in DOMAIN trace :
                 j > i => trace[j].kind = "eprint"
    /\ wdResult.state # "err" =>
          /\ ~Called("clear_partition_table")
          /\ \A i \in DOMAIN trace : trace[i] \notin WipeCalls

C1_Witness ==
    /\ pc = "failed"
    /\ wdResult = Err(<<"mount_partition_by_label error">>)
    /\ ~config.preserve_on_error
    /\ Cardinality(Calls("clear_partition_table")) = 1
    /\ cptResult.state = "ok"

\* ----------------------------------------------------------------- C2
\* C2 as stated: a failed install after acquisition leaves the first MiB
\* zero and the table re-read when preserve_on_error is unset, and the
\* original partition table intact when it is set.
C2_Original ==
    (pc = "failed" /\ WriteDiskFailed) =>
        IF config.preserve_on_error
        THEN dev.head = "orig" /\ ktable = "orig"
        ELSE dev.head = "zero" /\ ktable = "none"

\* C2 amended: a failed install after acquisition leaves the first MiB zero
\* and the table re-read when preserve_on_error is unset and
\* clear_partition_table succeeded; when clear_partition_table failed its
\* error is what install returns; when preserve_on_error is set the device
\* and the kernel's table are exactly as write_disk left them.
C2_Amended ==
    (pc = "failed" /\ WriteDiskFailed) =>
        IF config.preserve_on_error
        THEN dev = wdDev.dev /\ ktable = wdDev.ktable
        ELSE /\ cptResult.state \in {"ok", "err"}
             /\ cptResult.state = "ok" => dev.head = "zero" /\ ktable = "none"
             /\ cptResult.state = "err" => result = cptResult

C2_Witness ==
    /\ pc = "failed"
    /\ ~config.preserve_on_error
    /\ wdDev.dev.head = "image"
    /\ wdDev.ktable = "image"
    /\ cptResult.state = "ok"
    /\ dev.head = "zero"
    /\ ktable = "none"

\* ----------------------------------------------------------------- C3
\* a failure that precedes the acquisition of the device
PreAcquireFailure ==
    \/ location.n = 0
    \/ location.n > 1
    \/ /\ location.signature = "none"
       /\ location.require_signature = "yes"
       /\ ~config.insecure
    \/ dest.open = "failed"
    \/ dest.block = "no"
    \/ exclErr # <<>>

\* C3: after a failure that precedes acquisition (no or several artifacts,
\* a missing required signature without insecure, open failure, not a block
\* device, exclusive-access reread failure) install only returns an error:
\* write_disk is never entered, write_image and clear_partition_table are
\* never called and the device and the kernel's table are unchanged.
C3_NoWriteBeforeAcquire ==
    PreAcquireFailure =>
        /\ pc \in {"report", "report_ret", "failed"}
        /\ result.state # "ok"
        /\ pc = "failed" => result.state = "err"
        /\ wdResult = Running
        /\ ~Called("write_image")
        /\ ~Called("clear_partition_table")
        /\ \A i \in DOMAIN trace : trace[i] \notin WipeCalls
        /\ dev = OrigDev
        /\ ktable = "orig"

C3_Witness ==
    /\ pc = "failed"
    /\ location.n = 1
    /\ location.signature = "none"
    /\ location.require_signature = "yes"
    /\ ~config.insecure
    /\ result = Err(<<"--insecure not specified and signature not found">>)

\* ----------------------------------------------------------------- C4
\* C4: when the exclusive-access reread fails, report_busy_partitions has
\* run and install returns the reread error under the exclusive-access
\* context, whatever report_busy_partitions itself returned.
C4_OriginalErrorKept ==
    (pc = "failed" /\ exclErr # <<>>) =>
        /\ Called("report_busy_partitions")
        /\ result = Err(<<ExclusiveContext>> \o exclErr)

\* ----------------------------------------------------------------- C5
\* what recovery and the final error do after write_disk failed
RecoveryEntries ==
    WipeCalls \cup {Call("clear_partition_table"),
                    Eprint("Clearing partition table"),
                    Eprint("Preserving partition table as requested")}

\* C5: when write_disk fails, its error is printed with its whole chain of
\* causes before anything recovery does and before install returns.
C5_CauseLoggedFirst ==
    /\ \A i \in DOMAIN trace :
          trace[i] \in RecoveryEntries => \E j \in LogPositions : j < i
    /\ (Terminal /\ WriteDiskFailed) =>
          /\ Cardinality(LogPositions) = 1
          /\ Len(wdResult.chain) >= 1
    /\ (WriteDiskFailed /\ cptResult.state = "err") => LogPositions # {}

C5_Witness ==
    /\ pc = "failed"
    /\ wdResult = Err(<<"writing Ignition configuration",
                        "failed to validate Ignition configuration digest",
                        "hash mismatch">>)
    /\ cptResult = Err(<<"clearing partition table", "io error">>)
    /\ LogPositions # {}

\* ----------------------------------------------------------------- C6
\* the calls of the postprocessing steps, in the order of lines 185-210
PostOrder ==
    <<"write_ignition", "write_firstboot_kargs", "edit_bls_entries kargs",
      "write_platform", "copy_network_config">>
PostField ==
    <<"ignition", "firstboot", "kargs", "platform", "network">>

\* is step k of PostOrder asked for by the configuration
Requested(k) ==
    CASE k = 1 -> config.ignition # "none"
      [] k = 2 -> config.firstboot_kargs
      [] k = 3 -> config.append_kargs \/ config.delete_kargs
      [] k = 4 -> config.platform # "none"
      [] k = 5 -> config.network_config

\* positions j at which write_disk wrote the image, reread and settled
WrittenRereadSettled ==
    {j \in DOMAIN trace :
        /\ j + 2 <= Len(trace)
        /\ trace[j] = Call("write_image")
        /\ trace[j + 1] = Call("reread_partition_table")
        /\ trace[j + 2] = Call("udev_settle")}

\* everything install does has been done and has succeeded
AllSucceeded ==
    /\ dest.open = "yes" /\ dest.block = "yes" /\ exclErr = <<>>
    /\ wdResult = Ok
    /\ dev = [head |-> "image", tail |-> "image"]
    /\ ktable = "image"
    /\ WrittenRereadSettled # {}
    /\ \A k \in 1..5 :
          Requested(k) => Called(PostOrder[k]) /\ boot[PostField[k]] # "partial"
    /\ cptResult = Running

\* C6 as stated: install succeeds only if every step succeeded, and it
\* returns the generic "install failed" whenever write_disk failed.
C6_Original ==
    /\ result.state = "ok" => AllSucceeded
    /\ (pc = "failed" /\ WriteDiskFailed) => result = Err(<<"install failed">>)

\* C6 amended: install succeeds, and reports completion, only if every step
\* succeeded; when write_disk failed it returns the generic "install failed",
\* different from the cause, if recovery did not fail (preserve_on_error, or
\* clear_partition_table succeeded), and the error of clear_partition_table
\* if that failed.
C6_Amended ==
    /\ result.state = "ok" =>
          /\ pc = "done"
          /\ AllSucceeded
          /\ trace[Len(trace)] = Eprint("Install complete.")
    /\ Terminal => result.state \in {"ok", "err"}
    /\ (pc = "failed" /\ WriteDiskFailed) =>
          IF config.preserve_on_error \/ cptResult.state = "ok"
          THEN result = Err(<<"install failed">>) /\ result # wdResult
          ELSE cptResult.state = "err" /\ result = cptResult

C6_Witness ==
    /\ pc = "failed"
    /\ wdResult = Err(<<"write_image error">>)
    /\ cptResult.state = "ok"
    /\ result = Err(<<"install failed">>)

\* ----------------------------------------------------------------- C7
\* the calls write_disk makes after udev_settle
PostCalls == {Call("mount_partition_by_label")} \cup {Call(PostOrder[k]) : k \in 1..5}

\* C7: every successful write_image is followed at once by the reread and
\* that, if successful, by udev_settle, whatever the configuration; the
\* mount and the postprocessing steps come only after the three.
C7_WriteRereadSettle ==
    /\ \A i \in DOMAIN trace :
          /\ trace[i] = Call("write_image") =>
                \/ wdResult = Err(<<"write_image error">>)
                \/ i = Len(trace)
                \/ /\ trace[i + 1] = Call("reread_partition_table")
                   /\ \/ wdResult = Err(<<"reread_partition_table error">>)
                      \/ i + 1 = Len(trace)
                      \/ trace[i + 2] = Call("udev_settle")
          /\ trace[i] \in PostCalls =>
                \E j \in WrittenRereadSettled : j + 2 < i
    /\ wdResult.state = "ok" => WrittenRereadSettled # {}

C7_Witness ==
    /\ pc = "done"
    /\ config.ignition = "none" /\ ~config.firstboot_kargs /\ ~config.append_kargs
    /\ ~config.delete_kargs /\ config.platform = "none" /\ ~config.network_config
    /\ WrittenRereadSettled # {}

\* ----------------------------------------------------------------- C8
\* at least one of the six postprocessing fields is set
AnyField ==
    \/ config.ignition # "none"
    \/ config.firstboot_kargs
    \/ config.append_kargs
    \/ config.delete_kargs
    \/ config.platform # "none"
    \/ config.network_config

\* C8: once write_disk has settled, the boot partition is mounted (once) if
\* and only if a postprocessing field is set; with none set there is no
\* mount, no postprocessing step and no change to the boot partition.
C8_MountIffField ==
    /\ Cardinality(Calls("mount_partition_by_label")) <= 1
    /\ Called("mount_partition_by_label") => AnyField
    /\ ~AnyField =>
          /\ \A i \in DOMAIN trace : trace[i] \notin PostCalls
          /\ ~mounted
          /\ boot = NoBoot
    /\ \A j \in WrittenRereadSettled :
          (j + 2 < Len(trace) /\ wdResult # Err(<<"udev_settle error">>)) =>
              IF AnyField
              THEN trace[j + 3] = Call("mount_partition_by_label")
              ELSE wdResult = Ok /\ trace[j + 3] = Eprint("Install complete.")

C8_Witness ==
    /\ pc = "done"
    /\ config.ignition = "none" /\ ~config.firstboot_kargs /\ ~config.append_kargs
    /\ ~config.delete_kargs /\ config.platform = "none" /\ config.network_config
    /\ Called("mount_partition_by_label")
    /\ boot.network = "done"

\* ----------------------------------------------------------------- C9
\* the first frames of the errors with which step k ends write_disk
StepContexts(k) ==
    CASE k = 1 -> {"writing Ignition configuration"}
      [] k = 2 -> {"writing firstboot kargs"}
      [] k = 3 -> {"deleting and appending kargs"}
      [] k = 4 -> {"writing platform ID"}
      [] k = 5 -> {"creating destination networking config directory",
                   "reading directory", "Copying networking config"}

StepFailed(k) == wdResult.state = "err" /\ wdResult.chain[1] \in StepContexts(k)

\* the calls of postprocessing steps made so far, in the order made
IsPostStepCall(e) == e \in {Call(PostOrder[k]) : k \in 1..5}
PostStepsRun == SelectSeq(trace, IsPostStepCall)

\* the calls the configuration asks for, in the order of lines 185-210
IsRequestedCall(e) == \E k \in 1..5 : Requested(k) /\ e = Call(PostOrder[k])
PostStepsRequested == SelectSeq([k \in 1..5 |-> Call(PostOrder[k])], IsRequestedCall)

\* the steps run are the first of the requested ones, in order, each once;
\* a step that failed is the last that ran; a write_disk that succeeded ran
\* them all
PostOrdered ==
    LET run == PostStepsRun
        req == PostStepsRequested IN
    /\ Len(run) <= Len(req)
    /\ run = SubSeq(req, 1, Len(run))
    /\ \A k \in 1..5 :
          /\ StepFailed(k) => (run # <<>> /\ run[Len(run)] = Call(PostOrder[k]))
          /\ (\A i \in DOMAIN run : run[i] # Call(PostOrder[k])) =>
                boot[PostField[k]] = "none"
    /\ (Terminal /\ wdResult.state = "err" /\ Called("mount_partition_by_label")
           /\ wdResult.chain # <<"mount_partition_by_label error">>) =>
          \E k \in 1..5 : StepFailed(k)
    /\ (Terminal /\ wdResult.state = "ok") => run = req

\* what a step has done to the boot partition is never changed afterwards
EffectsKept ==
    \A k \in 1..5 :
        boot[PostField[k]] # "none" => boot'[PostField[k]] = boot[PostField[k]]

\* C9: the requested postprocessing steps run in the order Ignition config,
\* first-boot kargs, kernel-argument edit, platform, network config, each at
\* most once; the first that fails is the last that runs; and what a step
\* did to the boot partition stays as it is.
C9_PostprocessOrder == [] PostOrdered /\ [][EffectsKept]_vars

C9_Witness ==
    /\ pc = "failed"
    /\ StepFailed(4)
    /\ config.network_config
    /\ boot.ignition = "done"
    /\ boot.firstboot = "done"
    /\ boot.kargs = "done"
    /\ boot.platform = "partial"
    /\ ~Called("copy_network_config")

\* ---------------------------------------------------------------- C10
\* C10: the boot partition is not mounted once write_disk has returned,
\* with Ok or with the error of any step: not while the cleanup and
\* clear_partition_table run, nor when install is over; every mount is
\* paired with one unmount.
C10_MountReleased ==
    /\ pc \in {"wd_ret", "complete", "log_err", "cleanup", "cpt_seek", "cpt_write",
               "cpt_flush", "cpt_sync", "cpt_reread", "cpt_settle", "cpt_ok",
               "cpt_ret", "bail", "done", "failed"} => ~mounted
    /\ (\E i \in DOMAIN trace : trace[i] \in RecoveryEntries \/ trace[i] = LoggedCause)
          => ~mounted
    /\ mounted => Called("mount_partition_by_label") /\ ~Called("umount")
    /\ Cardinality(Calls("umount")) <= Cardinality(Calls("mount_partition_by_label"))

C10_Witness ==
    /\ pc = "cpt_write"
    /\ StepFailed(3)
    /\ Called("mount_partition_by_label")
    /\ Called("umount")
    /\ ~mounted

\* ---------------------------------------------------------------- C20
\* the calls of clear_partition_table, in the order of lines 436-446
CptOrder ==
    <<Call("seek"), Call("write_zeroes"), Call("flush"), Call("sync_all"),
      Call("reread_partition_table"), Call("udev_settle")>>

\* the first frame of the error with which each of them fails
CptContexts ==
    <<"seeking to start of disk", "clearing partition table",
      "flushing partition table to disk", "syncing partition table to disk",
      "reread_partition_table error", "udev_settle error">>

IsCall(e) == e.kind = "call"

\* the calls made since clear_partition_table was entered
CptCallsMade ==
    IF Called("clear_partition_table")
    THEN LET p == CHOOSE i \in Calls("clear_partition_table") : TRUE
         IN SelectSeq(SubSeq(trace, p + 1, Len(trace)), IsCall)
    ELSE <<>>

\* C20: clear_partition_table seeks to 0, writes the zeroes, flushes, syncs,
\* rereads the partition table and settles, in this order; the step that
\* fails is the last one made and its error is the error returned; so the
\* reread is made only after sync_all has returned successfully.
C20_ClearOrder ==
    LET made == CptCallsMade IN
    /\ Len(made) <= 6
    /\ made = SubSeq(CptOrder, 1, Len(made))
    /\ cptResult.state = "ok" => made = CptOrder
    /\ cptResult.state = "err" =>
          \E k \in 1..6 : /\ cptResult.chain[1] = CptContexts[k]
                          /\ Len(made) = k
    /\ (cptResult.state = "err" /\ Terminal) => result = cptResult
    /\ (\E i \in DOMAIN made : made[i] = Call("reread_partition_table")) =>
          /\ made[4] = Call("sync_all")
          /\ cptResult # Err(<<"syncing partition table to disk", "io error">>)

C20_Witness ==
    /\ pc = "failed"
    /\ cptResult = Err(<<"reread_partition_table error">>)
    /\ CptCallsMade = SubSeq(CptOrder, 1, 5)
    /\ dev.head = "zero"

\* =================================================================
\* The postprocessing functions on their own
\* =================================================================
\* A string is the sequence of its characters.

\* ---------------------------------------------------------------- bounds
\* largest number of kernel arguments on an options line
MaxKargs == 3
\* largest number of arguments to delete
MaxDelete == 2
\* largest number of arguments to append
MaxAppend == 1

\* what a function returns: Ok(val) or Err(chain)
RetOk(val) == [state |-> "ok", val |-> val, chain |-> <<>>]
RetErr(chain) == [state |-> "err", val |-> <<>>, chain |-> chain]

\* the install pipeline is not running
InstallIdle ==
    /\ config = [insecure |-> FALSE, preserve_on_error |-> FALSE, ignition |-> "none",
                 firstboot_kargs |-> FALSE, append_kargs |-> FALSE,
                 delete_kargs |-> FALSE, platform |-> "none", network_config |-> FALSE]
    /\ pc = "idle"
    /\ location = [n |-> -1, signature |-> "unknown", require_signature |-> "unknown"]
    /\ dest = [open |-> "no", block |-> "unknown", offset |-> "start"]
    /\ dev = OrigDev
    /\ ktable = "orig"
    /\ mounted = TRUE
    /\ boot = NoBoot
    /\ wdResult = Running
    /\ wdDev = [dev |-> OrigDev, ktable |-> "orig"]
    /\ cptResult = Running
    /\ busyResult = Running
    /\ exclErr = <<>>
    /\ result = Running
    /\ trace = <<>>

\* ------------------------------------------------------------ str helpers
\* char::is_whitespace, for the characters that occur
Whitespace == {" ", "\t", "\n", "\r"}

\* str::starts_with
StartsWith(s, p) == Len(s) >= Len(p) /\ SubSeq(s, 1, Len(p)) = p

\* str::trim_start
RECURSIVE TrimStart(_)
TrimStart(s) ==
    IF s # <<>> /\ s[1] \in Whitespace THEN TrimStart(Tail(s)) ELSE s

\* str::trim_end
RECURSIVE TrimEnd(_)
TrimEnd(s) ==
    IF s # <<>> /\ s[Len(s)] \in Whitespace
    THEN TrimEnd(SubSeq(s, 1, Len(s) - 1))
    ELSE s

\* pat occurs in s at position i
MatchAt(s, pat, i) ==
    i + Len(pat) - 1 <= Len(s) /\ SubSeq(s, i, i + Len(pat) - 1) = pat

\* str::replace for a non-empty pattern: the matches are found from left to
\* right and do not overlap
RECURSIVE ReplaceFrom(_, _, _, _)
ReplaceFrom(s, pat, rep, i) ==
    IF i > Len(s) THEN <<>>
    ELSE IF MatchAt(s, pat, i) THEN rep \o ReplaceFrom(s, pat, rep, i + Len(pat))
    ELSE <<s[i]>> \o ReplaceFrom(s, pat, rep, i + 1)

Replace(s, pat, rep) == ReplaceFrom(s, pat, rep, 1)

\* str::lines: the text cut at each "\n", a "\r" before it dropped; a last
\* line without "\n" counts, an empty rest after the last "\n" does not
RECURSIVE LinesFrom(_, _, _)
LinesFrom(text, i, cur) ==
    IF i > Len(text) THEN (IF cur = <<>> THEN <<>> ELSE <<cur>>)
    ELSE IF text[i] = "\n"
         THEN <<IF cur # <<>> /\ cur[Len(cur)] = "\r"
                THEN SubSeq(cur, 1, Len(cur) - 1) ELSE cur>>
              \o LinesFrom(text, i + 1, <<>>)
         ELSE LinesFrom(text, i + 1, Append(cur, text[i]))

Lines(text) == LinesFrom(text, 1, <<>>)

\* the strings of strs, each followed by sep... joined with sep between them
RECURSIVE Join(_, _)
Join(strs, sep) ==
    IF strs = <<>> THEN <<>>
    ELSE IF Len(strs) = 1 THEN strs[1]
    ELSE strs[1] \o sep \o Join(Tail(strs), sep)

\* ------------------------------------- bls_entry_delete_and_append_kargs
OptionsPrefix == <<"o", "p", "t", "i", "o", "n", "s", " ">>

\* lines 320-325
add_whitespaces(s) == <<" ">> \o s \o <<" ">>

\* lines 297-302: each argument, padded, is replaced by one space, in turn
RECURSIVE DeleteArgs(_, _)
DeleteArgs(line, args) ==
    IF args = <<>> THEN line
    ELSE DeleteArgs(Replace(line, add_whitespaces(Head(args)), <<" ">>), Tail(args))

\* lines 304-309: each argument after one space
RECURSIVE AppendArgs(_)
AppendArgs(args) ==
    IF args = <<>> THEN <<>>
    ELSE <<" ">> \o Head(args) \o AppendArgs(Tail(args))

\* lines 295-310: the new options line
EditOptionsLine(line, delete_args, append_args) ==
    OptionsPrefix
    \o TrimEnd(TrimStart(DeleteArgs(
           add_whitespaces(SubSeq(line, Len(OptionsPrefix) + 1, Len(line))),
           delete_args)))
    \o AppendArgs(append_args)

\* lines 285-313: the loop over the lines from line i on; new_contents and
\* found_options are the loop's variables
\* the loop without the test for a second options line
RECURSIVE KargsLoopLenient(_, _, _, _, _, _)
KargsLoopLenient(lines, i, new_contents, found_options, delete_args, append_args) ==
    IF i > Len(lines)
    THEN IF found_options THEN RetOk(new_contents)
         ELSE RetErr(<<"Couldn't locate 'options' line">>)
    ELSE IF ~StartsWith(lines[i], OptionsPrefix)
         THEN KargsLoopLenient(lines, i + 1, new_contents \o TrimEnd(lines[i]) \o <<"\n">>,
                               found_options, delete_args, append_args)
    ELSE KargsLoopLenient(lines, i + 1,
                          new_contents \o EditOptionsLine(lines[i], delete_args, append_args)
                              \o <<"\n">>,
                          TRUE, delete_args, append_args)

RECURSIVE KargsLoop(_, _, _, _, _, _)
KargsLoop(lines, i, new_contents, found_options, delete_args, append_args) ==
    IF i > Len(lines)
    THEN IF found_options THEN RetOk(new_contents)
         ELSE RetErr(<<"Couldn't locate 'options' line">>)
    ELSE IF ~StartsWith(lines[i], OptionsPrefix)
         THEN KargsLoop(lines, i + 1, new_contents \o TrimEnd(lines[i]) \o <<"\n">>,
                        found_options, delete_args, append_args)
    ELSE IF found_options
         THEN RetErr(<<"Multiple 'options' lines found">>)
    ELSE KargsLoop(lines, i + 1,
                   new_contents \o EditOptionsLine(lines[i], delete_args, append_args)
                       \o <<"\n">>,
                   TRUE, delete_args, append_args)

\* lines 278-318; None and an empty list of arguments behave alike
bls_entry_delete_and_append_kargs(orig_contents, delete_args, append_args) ==
    KargsLoop(Lines(orig_contents), 1, <<>>, FALSE, delete_args, append_args)

\* ------------------------------------------------------- inputs: kargs
\* kernel arguments: one is a prefix of another
KargValues == {<<"a">>, <<"b">>, <<"a", "b">>}

SeqsUpTo(S, n) == UNION {[1..k -> S] : k \in 0..n}

\* a well-formed entry text: one options line with kargs, the arguments
\* separated by single spaces, with or without the final newline
KargsCalls ==
    {[fn |-> "bls_entry_delete_and_append_kargs",
      kargs |-> ks,
      orig_contents |-> OptionsPrefix \o Join(ks, <<" ">>) \o nl,
      delete_args |-> del,
      append_args |-> app] :
        ks \in SeqsUpTo(KargValues, MaxKargs),
        nl \in {<<>>, <<"\n">>},
        del \in SeqsUpTo(KargValues, MaxDelete),
        app \in SeqsUpTo(KargValues, MaxAppend)}

InitKargs ==
    /\ call \in KargsCalls
    /\ fs = NoFs

\* the function is applied to its arguments
ApplyKargs ==
    /\ call.fn = "bls_entry_delete_and_append_kargs"
    /\ ret = Running
    /\ ret' = bls_entry_delete_and_append_kargs(call.orig_contents, call.delete_args,
                                                call.append_args)
    /\ UNCHANGED <<installvars, fs, call>>

\* ------------------------------------------------ bls_entry_write_platform
PlatformIdKarg == <<"i", "g", "n", "i", "t", "i", "o", "n", ".", "p", "l", "a", "t", "f", "o", "r", "m", ".", "i", "d", "=">>
Metal == <<"m", "e", "t", "a", "l">>

\* lines 346-355
bls_entry_write_platform(orig_contents, platform) ==
    LET new_contents == Replace(orig_contents, PlatformIdKarg \o Metal,
                                PlatformIdKarg \o platform)
    IN IF orig_contents = new_contents
       THEN RetErr(<<"Couldn't locate platform ID">>)
       ELSE RetOk(new_contents)

\* --------------------------------------------------- inputs: BLS entries
\* platforms: the default one, another one, one whose name begins with the
\* default one's
Platforms == {Metal, <<"q", "e", "m", "u">>, <<"m", "e", "t", "a", "l", "2">>}

\* entry texts: the platform karg among other kargs, alone, missing; no
\* options line; two options lines
EntryTexts ==
    {<<"t", "i", "t", "l", "e", " ", "t", "\n", "o", "p", "t", "i", "o", "n", "s", " ", "a", " ", "i", "g", "n", "i", "t", "i", "o", "n", ".", "p", "l", "a", "t", "f", "o", "r", "m", ".", "i", "d", "=", "m", "e", "t", "a", "l", " ", "b", "\n">>,
     <<"o", "p", "t", "i", "o", "n", "s", " ", "i", "g", "n", "i", "t", "i", "o", "n", ".", "p", "l", "a", "t", "f", "o", "r", "m", ".", "i", "d", "=", "m", "e", "t", "a", "l", "\n">>,
     <<"o", "p", "t", "i", "o", "n", "s", " ", "a", "\n">>,
     <<"t", "i", "t", "l", "e", " ", "t", "\n">>,
     <<"o", "p", "t", "i", "o", "n", "s", " ", "a", "\n", "o", "p", "t", "i", "o", "n", "s", " ", "i", "g", "n", "i", "t", "i", "o", "n", ".", "p", "l", "a", "t", "f", "o", "r", "m", ".", "i", "d", "=", "m", "e", "t", "a", "l", "\n">>}

PlatformCalls ==
    {[fn |-> "bls_entry_write_platform", orig_contents |-> t, platform |-> p,
      round |-> 1] : t \in EntryTexts, p \in Platforms}

InitPlatform ==
    /\ call \in PlatformCalls
    /\ fs = NoFs

\* the function is applied to its arguments
ApplyPlatform ==
    /\ call.fn = "bls_entry_write_platform"
    /\ ret = Running
    /\ ret' = bls_entry_write_platform(call.orig_contents, call.platform)
    /\ UNCHANGED <<installvars, fs, call>>

\* the function is applied, with the same platform, to what it returned
ApplyPlatformAgain ==
    /\ call.fn = "bls_entry_write_platform"
    /\ call.round = 1
    /\ ret.state = "ok"
    /\ call' = [call EXCEPT !.orig_contents = ret.val, !.round = 2]
    /\ ret' = bls_entry_write_platform(ret.val, call.platform)
    /\ UNCHANGED <<installvars, fs>>

\* entry texts for the kargs edit, with nothing or one argument to delete
\* and to append
KargsEntryCalls ==
    {[fn |-> "bls_entry_delete_and_append_kargs",
      kargs |-> <<>>,
      orig_contents |-> t,
      delete_args |-> del,
      append_args |-> app] :
        t \in EntryTexts,
        del \in {<<>>, <<<<"a">>>>},
        app \in {<<>>, <<<<"b">>>>}}

InitKargsEntry ==
    /\ call \in KargsEntryCalls
    /\ fs = NoFs

\* -------------------------------------------------------- edit_bls_entries
\* largest number of files in loader/entries
MaxEntries == 2
\* largest number of bytes a short write leaves unwritten
MaxShort == 1

\* the files of loader/entries: the entry texts as .conf files and one file
\* that is not a .conf file
EntryFiles ==
    {[ext |-> "conf", content |-> t] : t \in EntryTexts}
    \cup {[ext |-> "bak", content |-> <<"o", "p", "t", "i", "o", "n", "s", " ", "i", "g", "n", "i", "t", "i", "o", "n", ".", "p", "l", "a", "t", "f", "o", "r", "m", ".", "i", "d", "=", "m", "e", "t", "a", "l", "\n">>]}

\* the one operation that the file system fails, if any: read_dir, the
\* reading of a directory entry, or an operation on the file of entry at; a
\* short write succeeds with short bytes fewer than asked
NoFault == [op |-> "none", at |-> 0, short |-> 0]
Faults(n) ==
    {NoFault, [op |-> "read_dir", at |-> 0, short |-> 0]}
    \cup {[op |-> o, at |-> i, short |-> 0] :
            o \in {"entry", "open", "read", "seek", "set_len", "write"}, i \in 1..n}
    \cup {[op |-> "short_write", at |-> i, short |-> k] : i \in 1..n, k \in 1..MaxShort}

Fails(fault, op, i) == fault.op = op /\ fault.at = i

\* loader/entries, in the order read_dir yields it; ops are the operations
\* made on it
BlsDirs ==
    {[kind |-> "entries", entries |-> es, fault |-> ft, ops |-> <<>>] :
        es \in SeqsUpTo(EntryFiles, MaxEntries), ft \in Faults(MaxEntries)}

Op(op, i) == [op |-> op, at |-> i]

\* the closure f of edit_bls_entries: lines 196-202 and 337-339
Transform(f, orig_contents) ==
    IF f.fn = "bls_entry_write_platform"
    THEN bls_entry_write_platform(orig_contents, f.platform)
    ELSE bls_entry_delete_and_append_kargs(orig_contents, f.delete_args, f.append_args)

Done(entries, ops, r) == [entries |-> entries, ops |-> ops, ret |-> r]

\* File::write of line 394: all of buf, or fewer bytes on a short write
Write(buf, fault, i) ==
    IF Fails(fault, "short_write", i)
    THEN SubSeq(buf, 1, IF Len(buf) > fault.short THEN Len(buf) - fault.short ELSE 0)
    ELSE buf

\* lines 362-397: the loop over the directory from entry i on
RECURSIVE EditLoop(_, _, _, _, _)
EditLoop(entries, i, f, fault, ops) ==
    IF i > Len(entries) THEN Done(entries, ops, Ok)
    ELSE IF Fails(fault, "entry", i)
         THEN Done(entries, ops, Err(<<"reading directory", "io error">>))
    ELSE IF entries[i].ext # "conf" THEN EditLoop(entries, i + 1, f, fault, ops)
    ELSE IF Fails(fault, "open", i)
         THEN Done(entries, ops \o <<Op("open", i)>>,
                   Err(<<"opening bootloader config", "io error">>))
    ELSE IF Fails(fault, "read", i)
         THEN Done(entries, ops \o <<Op("open", i), Op("read", i)>>,
                   Err(<<"reading entry", "io error">>))
    ELSE LET new_contents == Transform(f, entries[i].content)
             truncated == [entries EXCEPT ![i].content = <<>>]
             written == [entries EXCEPT
                            ![i].content = Write(new_contents.val, fault, i)]
             read == ops \o <<Op("open", i), Op("read", i)>>
         IN IF new_contents.state = "err"
            THEN Done(entries, read, Err(ChainErr("modifying entry", new_contents.chain)))
            ELSE IF Fails(fault, "seek", i)
                 THEN Done(entries, read \o <<Op("seek", i)>>,
                           Err(<<"seeking entry", "io error">>))
            ELSE IF Fails(fault, "set_len", i)
                 THEN Done(entries, read \o <<Op("seek", i), Op("set_len", i)>>,
                           Err(<<"truncating entry", "io error">>))
            ELSE IF Fails(fault, "write", i)
                 THEN Done(truncated,
                           read \o <<Op("seek", i), Op("set_len", i), Op("write", i)>>,
                           Err(<<"writing entry", "io error">>))
            ELSE EditLoop(written, i + 1, f, fault,
                          read \o <<Op("seek", i), Op("set_len", i), Op("write", i)>>)

\* lines 358-400: the directory and the result after edit_bls_entries
edit_bls_entries(dir, f) ==
    IF Fails(dir.fault, "read_dir", 0)
    THEN [fs |-> [dir EXCEPT !.ops = @ \o <<Op("read_dir", 0)>>],
          ret |-> Err(<<"reading directory", "io error">>)]
    ELSE LET r == EditLoop(dir.entries, 1, f, dir.fault, dir.ops \o <<Op("read_dir", 0)>>)
         IN [fs |-> [dir EXCEPT !.entries = r.entries, !.ops = r.ops], ret |-> r.ret]

\* lines 328-341: without the early return for "metal"
write_platform_always(dir, platform) ==
    edit_bls_entries([dir EXCEPT !.ops = @ \o <<Op("eprintln", 0)>>],
                     [fn |-> "bls_entry_write_platform", platform |-> platform])

\* lines 328-341
write_platform(dir, platform) ==
    IF platform = Metal
    THEN [fs |-> dir, ret |-> Ok]
    ELSE edit_bls_entries([dir EXCEPT !.ops = @ \o <<Op("eprintln", 0)>>],
                          [fn |-> "bls_entry_write_platform", platform |-> platform])

InitWritePlatform ==
    /\ fs \in BlsDirs
    /\ fs.fault.at <= Len(fs.entries)
    /\ call \in {[fn |-> "write_platform", platform |-> p] : p \in Platforms}

ApplyWritePlatform ==
    /\ call.fn = "write_platform"
    /\ ret = Running
    /\ LET r == write_platform(fs, call.platform)
       IN fs' = r.fs /\ ret' = r.ret
    /\ UNCHANGED <<installvars, call>>

\* lines 196-202: the kargs edit of write_disk
InitEditKargs ==
    /\ fs \in BlsDirs
    /\ fs.fault.at <= Len(fs.entries)
    /\ call \in {[fn |-> "edit_bls_entries",
                  f |-> [fn |-> "bls_entry_delete_and_append_kargs",
                         delete_args |-> del, append_args |-> app]] :
                    del \in {<<>>, <<<<"a">>>>}, app \in {<<>>, <<<<"b">>>>}}

ApplyEditKargs ==
    /\ call.fn = "edit_bls_entries"
    /\ ret = Running
    /\ LET r == edit_bls_entries(fs, call.f)
       IN fs' = r.fs /\ ret' = r.ret
    /\ UNCHANGED <<installvars, call>>

\* ------------------------------------------------------ IgnitionHash::validate
\* the SHA-512 digest of bytes: two inputs with one digest do not occur
Sha512Of(bytes) == [sha512of |-> bytes]

None == [kind |-> "none"]
\* IgnitionHash::Sha512(digest)
Sha512(digest) == [kind |-> "sha512", digest |-> digest]

\* what is left of a stream [content, pos] to read
Rest(stream) == SubSeq(stream.content, stream.pos + 1, Len(stream.content))

\* lines 64-82: copy(input, &mut hasher) reads the input from its position
\* to its end; a failing read stops it on the way
validate(self, input, fault) ==
    IF fault.op = "hash_read"
    THEN [input |-> input, ret |-> Err(<<"copying input to hasher", "io error">>)]
    ELSE [input |-> [input EXCEPT !.pos = Len(input.content)],
          ret |-> IF Sha512Of(Rest(input)) # self.digest
                  THEN Err(<<"hash mismatch">>)
                  ELSE Ok]

\* ------------------------------------------------------------ write_ignition
\* the stream as it is after validation
RewindNot(stream) == stream

\* lines 229-231: seek(SeekFrom::Start(0))
Rewind(stream) == [stream EXCEPT !.pos = 0]

Absent == [exists |-> FALSE, content |-> <<>>]
File(content) == [exists |-> TRUE, content |-> content]

\* open with write(true), create(true), truncate(true)
create_truncate(file) == [ok |-> TRUE, file |-> File(<<>>)]

\* lines 240-243: open with write(true) and create_new(true)
create_new(file) ==
    IF file.exists THEN [ok |-> FALSE, file |-> file]
    ELSE [ok |-> TRUE, file |-> File(<<>>)]

\* the first n elements of s, all of s if it has fewer
Prefix(s, n) == SubSeq(s, 1, IF n < Len(s) THEN n ELSE Len(s))

\* lines 225-232: the digest check, when there is a digest
ValidateAndRewind(b, digest_in) ==
    IF digest_in = None THEN [fs |-> b, ret |-> Ok]
    ELSE LET v == validate(digest_in, b.config_in, b.fault)
             read == [b EXCEPT !.config_in = v.input, !.ops = @ \o <<"validate">>]
         IN IF v.ret # Ok
            THEN [fs |-> read,
                  ret |-> Err(ChainErr("failed to validate Ignition configuration digest",
                                       v.ret.chain))]
            ELSE IF b.fault.op = "seek"
                 THEN [fs |-> [read EXCEPT !.ops = @ \o <<"seek">>],
                       ret |-> Err(<<"rewinding Ignition configuration file", "io error">>)]
            ELSE [fs |-> [read EXCEPT !.config_in = Rewind(@), !.ops = @ \o <<"seek">>],
                  ret |-> Ok]

\* lines 234-251: the directory, the file and the copy; a failing copy
\* leaves the bytes it wrote
CreateAndCopy(b) ==
    IF b.fault.op = "create_dir_all"
    THEN [fs |-> [b EXCEPT !.ops = @ \o <<"create_dir_all">>],
          ret |-> Err(<<"creating Ignition config directory", "io error">>)]
    ELSE LET made == [b EXCEPT !.ignition_dir = TRUE, !.ops = @ \o <<"create_dir_all", "open">>]
             config_out == create_new(b.config_ign)
         IN IF b.fault.op = "open"
            THEN [fs |-> made,
                  ret |-> Err(<<"opening destination Ignition config", "io error">>)]
            ELSE IF ~config_out.ok
                 THEN [fs |-> made,
                       ret |-> Err(<<"opening destination Ignition config", "file exists">>)]
            ELSE IF b.fault.op = "copy"
                 THEN [fs |-> [made EXCEPT
                                 !.config_ign = File(Prefix(Rest(b.config_in), b.fault.short)),
                                 !.ops = @ \o <<"copy">>],
                       ret |-> Err(<<"writing Ignition config", "io error">>)]
            ELSE [fs |-> [made EXCEPT
                            !.config_ign = File(Rest(b.config_in)),
                            !.config_in.pos = Len(b.config_in.content),
                            !.ops = @ \o <<"copy">>],
                  ret |-> Ok]

\* lines 217-254
write_ignition(b, digest_in) ==
    LET v == ValidateAndRewind([b EXCEPT !.ops = @ \o <<"eprintln">>], digest_in)
    IN IF v.ret # Ok THEN v ELSE CreateAndCopy(v.fs)

\* ---------------------------------------------------- inputs: write_ignition
\* largest number of bytes of an Ignition config
MaxConfig == 2

ConfigBytes == {"{", "}"}
Configs == SeqsUpTo(ConfigBytes, MaxConfig)

\* what config.ign holds if it is there already
OldConfig == <<"o", "l", "d">>

IgnitionFaults ==
    {[op |-> o, short |-> 0] :
        o \in {"none", "hash_read", "seek", "create_dir_all", "open"}}
    \cup {[op |-> "copy", short |-> k] : k \in 0..MaxShort}

\* the boot partition and the config file, opened and unread
IgnitionDirs ==
    {[kind |-> "ignition", ignition_dir |-> d.dir, config_ign |-> d.file,
      config_in |-> [content |-> c, pos |-> 0], fault |-> ft, ops |-> <<>>] :
        d \in {[dir |-> FALSE, file |-> Absent], [dir |-> TRUE, file |-> Absent],
               [dir |-> TRUE, file |-> File(OldConfig)]},
        c \in Configs,
        ft \in IgnitionFaults}

InitWriteIgnition ==
    /\ fs \in IgnitionDirs
    /\ call \in {[fn |-> "write_ignition", digest_in |-> d] :
                    d \in {None} \cup {Sha512(Sha512Of(c)) : c \in Configs}}

ApplyWriteIgnition ==
    /\ call.fn = "write_ignition"
    /\ ret = Running
    /\ LET r == write_ignition(fs, call.digest_in)
       IN fs' = r.fs /\ ret' = r.ret
    /\ UNCHANGED <<installvars, call>>

\* ------------------------------------------------------ write_firstboot_kargs
\* open with append(true) and create(true)
open_append_create(file) ==
    [ok |-> TRUE, file |-> IF file.exists THEN file ELSE File(<<>>)]

\* lines 265-268: open with append(true): the file must exist
open_append(file) == [ok |-> file.exists, file |-> file]

\* line 269: format!("set ignition_network_kcmdline=\"{}\"\n", args)
FirstbootContents(args) ==
    <<"s", "e", "t", " ", "i", "g", "n", "i", "t", "i", "o", "n", "_", "n", "e", "t", "w", "o", "r", "k", "_", "k", "c", "m", "d", "l", "i", "n", "e", "=", "\"">> \o args \o <<"\"", "\n">>

\* lines 257-275; every write of a file opened for appending goes to its
\* end, and a failing write_all leaves the bytes it wrote
write_firstboot_kargs(b, args) ==
    LET config_out == open_append(b.firstboot)
        opened == [b EXCEPT !.firstboot = config_out.file, !.ops = @ \o <<"eprintln", "open">>]
        contents == FirstbootContents(args)
    IN IF b.fault.op = "open"
       THEN [fs |-> [b EXCEPT !.ops = @ \o <<"eprintln", "open">>],
             ret |-> Err(<<"opening first-boot file", "io error">>)]
       ELSE IF ~config_out.ok
            THEN [fs |-> opened, ret |-> Err(<<"opening first-boot file", "not found">>)]
       ELSE IF b.fault.op = "write_all"
            THEN [fs |-> [opened EXCEPT
                            !.firstboot.content = @ \o Prefix(contents, b.fault.short),
                            !.ops = @ \o <<"write_all">>],
                  ret |-> Err(<<"writing first-boot kernel arguments", "io error">>)]
       ELSE [fs |-> [opened EXCEPT !.firstboot.content = @ \o contents,
                                   !.ops = @ \o <<"write_all">>],
             ret |-> Ok]

\* ---------------------------------------------- inputs: write_firstboot_kargs
\* what the image's ignition.firstboot holds: nothing, or a line
FirstbootTexts == {<<>>, <<"s", "e", "t", " ", "x", "=", "1", "\n">>}

\* first-boot kernel arguments: none, one, two
FirstbootArgs == {<<>>, <<"a">>, <<"a", " ", "b", "=", "c">>}

FirstbootDirs ==
    {[kind |-> "firstboot", firstboot |-> f, fault |-> ft, ops |-> <<>>] :
        f \in {Absent} \cup {File(t) : t \in FirstbootTexts},
        ft \in {[op |-> o, short |-> 0] : o \in {"none", "open"}}
               \cup {[op |-> "write_all", short |-> k] : k \in 0..MaxShort}}

InitWriteFirstbootKargs ==
    /\ fs \in FirstbootDirs
    /\ call \in {[fn |-> "write_firstboot_kargs", args |-> a] : a \in FirstbootArgs}

ApplyWriteFirstbootKargs ==
    /\ call.fn = "write_firstboot_kargs"
    /\ ret = Running
    /\ LET r == write_firstboot_kargs(fs, call.args)
       IN fs' = r.fs /\ ret' = r.ret
    /\ UNCHANGED <<installvars, call>>

\* ---------------------------------------------------- IgnitionHash::try_parse
\* line 51: the bits of a SHA-512 digest
Sha512Bits == 512

\* the index of the first c in s, 0 if there is none
Find(s, c) ==
    LET at == {i \in DOMAIN s : s[i] = c}
    IN IF at = {} THEN 0 ELSE CHOOSE i \in at : \A j \in at : i <= j

\* line 41: input.splitn(2, '-'): cut at the first hyphen only
Splitn2(input) ==
    LET k == Find(input, "-")
    IN IF k = 0 THEN <<input>>
       ELSE <<SubSeq(input, 1, k - 1), SubSeq(input, k + 1, Len(input))>>

HexLower == <<"0", "1", "2", "3", "4", "5", "6", "7", "8", "9", "a", "b", "c", "d", "e", "f">>
HexUpper == <<"0", "1", "2", "3", "4", "5", "6", "7", "8", "9", "A", "B", "C", "D", "E", "F">>

\* the value of a hex digit of either case, -1 for another character
HexVal(c) ==
    IF \E i \in DOMAIN HexLower : HexLower[i] = c
    THEN (CHOOSE i \in DOMAIN HexLower : HexLower[i] = c) - 1
    ELSE IF \E i \in DOMAIN HexUpper : HexUpper[i] = c
    THEN (CHOOSE i \in DOMAIN HexUpper : HexUpper[i] = c) - 1
    ELSE -1

\* hex::decode of line 49: one byte for two digits; an odd length is
\* refused before the digits are looked at
hex_decode(s) ==
    IF Len(s) % 2 # 0 THEN RetErr(<<"odd number of digits">>)
    ELSE IF \E i \in DOMAIN s : HexVal(s[i]) < 0 THEN RetErr(<<"invalid character">>)
    ELSE RetOk([i \in 1..(Len(s) \div 2) |-> 16 * HexVal(s[2 * i - 1]) + HexVal(s[2 * i])])

\* no test of the length
DigestLengthAny(digest) == TRUE

\* line 51: digest.len().saturating_mul(8) == 512; lengths here are far from
\* saturating
DigestLengthOk(digest) == Len(digest) * 8 = Sha512Bits

\* lines 40-61
try_parse(input) ==
    LET parts == Splitn2(input)
    IN IF Len(parts) # 2
       THEN RetErr(<<"failed to detect hash-type and digest">>)
       ELSE IF parts[1] = <<"s", "h", "a", "5", "1", "2">>
            THEN LET digest == hex_decode(parts[2])
                 IN IF digest.state = "err"
                    THEN RetErr(ChainErr("decoding hex digest", digest.chain))
                    ELSE IF ~DigestLengthOk(digest.val)
                         THEN RetErr(<<"wrong digest length ("
                                       \o ToString(Len(digest.val) * 8) \o ")">>)
                    ELSE RetOk(Sha512(digest.val))
       ELSE RetErr(<<"unknown hash type">>)

\* -------------------------------------------------------- inputs: try_parse
\* how many bytes below and above the right length a digest can be
HexSlack == 1

\* n times the string s
Repeat(s, n) == [i \in 1..(n * Len(s)) |-> s[((i - 1) % Len(s)) + 1]]

\* what stands before the first hyphen
HashKinds == {<<"s", "h", "a", "5", "1", "2">>, <<"s", "h", "a", "2", "5", "6">>, <<"S", "H", "A", "5", "1", "2">>, <<"f", "o", "o">>, <<>>}

\* what stands after it: bytes of two digits, none, one or about as many
\* as SHA-512 has, and then nothing, one more digit, a character that is no
\* digit, or a second hyphen
HexDigests ==
    {Repeat(pair, n) \o tail :
        pair \in {<<"0", "0">>, <<"c", "F">>},
        n \in {0, 1} \cup ((Sha512Bits \div 8 - HexSlack)..(Sha512Bits \div 8 + HexSlack)),
        tail \in {<<>>, <<"0">>, <<"g", "0">>, <<"-", "0">>}}

ParseInputs ==
    {kind \o hyphen \o hex :
        kind \in HashKinds, hyphen \in {<<>>, <<"-">>}, hex \in HexDigests}

InitTryParse ==
    /\ call \in {[fn |-> "try_parse", input |-> i] : i \in ParseInputs}
    /\ fs = NoFs

ApplyTryParse ==
    /\ call.fn = "try_parse"
    /\ ret = Running
    /\ ret' = try_parse(call.input)
    /\ UNCHANGED <<installvars, fs, call>>



InitSteps ==
    /\ InstallIdle
    /\ ret = Running
    /\ \/ InitKargs
       \/ InitKargsEntry
       \/ InitPlatform
       \/ InitWritePlatform
       \/ InitEditKargs
       \/ InitWriteIgnition
       \/ InitWriteFirstbootKargs
       \/ InitTryParse

NextSteps ==
    \/ ApplyKargs
    \/ ApplyPlatform
    \/ ApplyPlatformAgain
    \/ ApplyWritePlatform
    \/ ApplyEditKargs
    \/ ApplyWriteIgnition
    \/ ApplyWriteFirstbootKargs
    \/ ApplyTryParse

SpecSteps == InitSteps /\ [][NextSteps]_vars

\* =================================================================
\* Properties of the postprocessing functions
\* =================================================================
\* ---------------------------------------------------------------- C11
\* the kargs of ks that are not arguments to delete, in their order
RECURSIVE Surviving(_, _)
Surviving(ks, del) ==
    IF ks = <<>> THEN <<>>
    ELSE IF \E i \in DOMAIN del : del[i] = Head(ks) THEN Surviving(Tail(ks), del)
    ELSE <<Head(ks)>> \o Surviving(Tail(ks), del)

\* the text is one options line with the arguments call.kargs
OneOptionsLine ==
    \E nl \in {<<>>, <<"\n">>} :
        call.orig_contents = OptionsPrefix \o Join(call.kargs, <<" ">>) \o nl

\* C11: deleting kernel arguments removes every argument of the options
\* line that equals an argument to delete and keeps every other one, in
\* order and unaltered: the result is "options " and the surviving arguments
\* separated by single spaces.
C11_ExactTokens ==
    (call.fn = "bls_entry_delete_and_append_kargs" /\ ret # Running
        /\ OneOptionsLine /\ call.append_args = <<>>) =>
        ret = RetOk(OptionsPrefix
                    \o Join(Surviving(call.kargs, call.delete_args), <<" ">>)
                    \o <<"\n">>)

\* what does hold: the same, when no argument occurs twice on the line
C11_DistinctKargs ==
    (call.fn = "bls_entry_delete_and_append_kargs" /\ ret # Running
        /\ OneOptionsLine /\ call.append_args = <<>>
        /\ \A i, j \in DOMAIN call.kargs : i # j => call.kargs[i] # call.kargs[j]) =>
        ret = RetOk(OptionsPrefix
                    \o Join(Surviving(call.kargs, call.delete_args), <<" ">>)
                    \o <<"\n">>)

\* ---------------------------------------------------------------- C12
IsOptionsLine(line) == StartsWith(line, OptionsPrefix)
\* the number of lines of text that begin with "options "
OptionsLines(text) == Len(SelectSeq(Lines(text), IsOptionsLine))

KargsError(n) ==
    IF n = 0 THEN "Couldn't locate 'options' line" ELSE "Multiple 'options' lines found"

\* the transform fails on a text without or with several options lines,
\* and returns no text then
C12_TransformFails ==
    (call.fn = "bls_entry_delete_and_append_kargs" /\ ret # Running) =>
        LET n == OptionsLines(call.orig_contents)
        IN /\ n # 1 => ret = RetErr(<<KargsError(n)>>)
           /\ n = 1 => ret.state = "ok"

\* the first .conf entry without exactly one options line, 0 if none
FirstBadEntry(entries) ==
    LET bad == {i \in DOMAIN entries :
                    entries[i].ext = "conf" /\ OptionsLines(entries[i].content) # 1}
    IN IF bad = {} THEN 0 ELSE CHOOSE i \in bad : \A j \in bad : i <= j

\* the kargs edit of the directory leaves every entry without exactly one
\* options line as it was, and fails on the first one (if nothing else
\* failed before)
C12_EntryKept ==
    (call.fn = "edit_bls_entries" /\ ret = Running /\ ret' # Running) =>
        /\ \A i \in DOMAIN fs.entries :
              OptionsLines(fs.entries[i].content) # 1 => fs'.entries[i] = fs.entries[i]
        /\ LET b == FirstBadEntry(fs.entries)
           IN (b # 0 /\ fs.fault = NoFault) =>
                 ret' = Err(<<"modifying entry",
                              KargsError(OptionsLines(fs.entries[b].content))>>)

\* C12: the kernel-argument edit needs exactly one line beginning with
\* "options " in an entry: without one it fails with "Couldn't locate
\* 'options' line", with two or more with "Multiple 'options' lines found";
\* it returns no text then and the entry file keeps its content.
C12_OneOptionsLine == [] C12_TransformFails /\ [][C12_EntryKept]_vars

\* the second entry has two options lines: the edit failed on it after it
\* rewrote the first entry, and the second entry is as it was
C12_Witness ==
    /\ call.fn = "edit_bls_entries"
    /\ ret = Err(<<"modifying entry", "Multiple 'options' lines found">>)
    /\ Len(fs.entries) = 2
    /\ fs.entries[2] = [ext |-> "conf",
                        content |-> <<"o", "p", "t", "i", "o", "n", "s", " ", "a", "\n", "o", "p", "t", "i", "o", "n", "s", " ", "i", "g", "n", "i", "t", "i", "o", "n", ".", "p", "l", "a", "t", "f", "o", "r", "m", ".", "i", "d", "=", "m", "e", "t", "a", "l", "\n">>]
    /\ \E k \in DOMAIN fs.ops : fs.ops[k] = Op("write", 1)

\* ---------------------------------------------------------------- C13
\* C13: for every platform, once bls_entry_write_platform has succeeded on
\* an entry, applying it again with the same platform to its result fails
\* with "Couldn't locate platform ID".
C13_SecondFails ==
    (call.fn = "bls_entry_write_platform" /\ call.round = 2) =>
        ret = RetErr(<<"Couldn't locate platform ID">>)

\* what does hold: the same for the platforms whose name does not begin
\* with "metal"
C13_OtherPlatforms ==
    (call.fn = "bls_entry_write_platform" /\ call.round = 2
        /\ ~StartsWith(call.platform, Metal)) =>
        ret = RetErr(<<"Couldn't locate platform ID">>)

\* ---------------------------------------------------------------- C14
Contains(s, pat) == \E i \in 1..Len(s) : MatchAt(s, pat, i)

\* C14: write_platform with a platform other than "metal" returns success
\* only if the platform karg of an entry was replaced by the karg of the
\* platform; it fails whenever nothing was replaced, a directory without
\* .conf file included.
C14_SuccessMeansReplaced ==
    (call.fn = "write_platform" /\ call.platform # Metal /\ ret = Ok) =>
        \E i \in DOMAIN fs.entries :
            /\ fs.entries[i].ext = "conf"
            /\ Contains(fs.entries[i].content, PlatformIdKarg \o call.platform)

\* ---------------------------------------------------------------- C15
\* C15: with the platform "metal", write_platform returns success and makes
\* no operation on loader/entries: every file is as it was, whatever the
\* entries hold and even if the directory cannot be read.
C15_MetalNoop ==
    [][(call.fn = "write_platform" /\ call.platform = Metal /\ ret = Running) =>
          (ret' = Ok /\ fs' = fs)]_vars

\* write_platform has returned for "metal" on a directory that cannot be
\* read
C15_Witness ==
    /\ call.fn = "write_platform"
    /\ call.platform = Metal
    /\ ret = Ok
    /\ fs.fault.op = "read_dir"
    /\ fs.ops = <<>>

\* ---------------------------------------------------------------- C16
\* write_ignition returns, called with a digest
IgnitionStepWithDigest ==
    call.fn = "write_ignition" /\ call.digest_in # None /\ ret = Running /\ ret' # Running

\* C16: write_ignition with a digest validates the whole config first and
\* rewinds the stream before the copy: if the validation fails, neither the
\* ignition directory nor config.ign is created or changed; if the step
\* succeeds, config.ign holds the config byte for byte from its first byte.
C16_ValidateThenCopy ==
    [][IgnitionStepWithDigest =>
          /\ (call.digest_in.digest # Sha512Of(fs.config_in.content)
                \/ (ret'.state = "err" /\ ret'.chain[1] =
                       "failed to validate Ignition configuration digest")) =>
                 /\ ret'.state = "err"
                 /\ fs'.ignition_dir = fs.ignition_dir
                 /\ fs'.config_ign = fs.config_ign
          /\ ret' = Ok =>
                 /\ call.digest_in.digest = Sha512Of(fs.config_in.content)
                 /\ fs'.config_ign = File(fs.config_in.content)]_vars

\* a config of two bytes was validated and written whole
C16_Witness ==
    /\ call.fn = "write_ignition"
    /\ call.digest_in # None
    /\ ret = Ok
    /\ Len(fs.config_in.content) = 2
    /\ fs.config_ign = File(fs.config_in.content)
    /\ \E k \in DOMAIN fs.ops : fs.ops[k] = "validate"

\* ---------------------------------------------------------------- C17
\* C17: write_ignition creates config.ign exclusively: if the file exists
\* the step fails and the file's content is unchanged; it fails with
\* "opening destination Ignition config" unless an earlier step failed.
C17_ExclusiveCreate ==
    [][(call.fn = "write_ignition" /\ ret = Running /\ ret' # Running
            /\ fs.config_ign.exists) =>
          /\ ret'.state = "err"
          /\ fs'.config_ign = fs.config_ign
          /\ (\E k \in DOMAIN fs'.ops : fs'.ops[k] = "open") =>
                ret'.chain[1] = "opening destination Ignition config"]_vars

\* the open failed on the config.ign that was there, which is as it was
C17_Witness ==
    /\ call.fn = "write_ignition"
    /\ ret = Err(<<"opening destination Ignition config", "file exists">>)
    /\ fs.config_ign = File(OldConfig)

\* ---------------------------------------------------------------- C18
\* C18: write_firstboot_kargs never creates ignition.firstboot: if the file
\* is absent the step fails and the file is still absent; if it exists,
\* what it held stays as a prefix, and on success exactly the line
\* set ignition_network_kcmdline="<args>" and a newline is appended.
C18_AppendOnly ==
    [][(call.fn = "write_firstboot_kargs" /\ ret = Running /\ ret' # Running) =>
          /\ ~fs.firstboot.exists =>
                ret'.state = "err" /\ fs'.firstboot = Absent
          /\ fs.firstboot.exists =>
                /\ fs'.firstboot.exists
                /\ StartsWith(fs'.firstboot.content, fs.firstboot.content)
                /\ fs.fault.op = "none" => ret' = Ok
                /\ ret' = Ok =>
                      fs'.firstboot.content =
                          fs.firstboot.content
                          \o <<"s", "e", "t", " ", "i", "g", "n", "i", "t", "i", "o", "n", "_", "n", "e", "t", "w", "o", "r", "k", "_", "k", "c", "m", "d", "l", "i", "n", "e", "=", "\"">> \o call.args
                          \o <<"\"", "\n">>]_vars

\* the line for the arguments a b=c was appended to the line of the image
C18_Witness ==
    /\ call.fn = "write_firstboot_kargs"
    /\ ret = Ok
    /\ fs.firstboot.content =
          <<"s", "e", "t", " ", "x", "=", "1", "\n", "s", "e", "t", " ", "i", "g", "n", "i", "t", "i", "o", "n", "_", "n", "e", "t", "w", "o", "r", "k", "_", "k", "c", "m", "d", "l", "i", "n", "e", "=", "\"", "a", " ", "b", "=", "c", "\"", "\n">>

\* ---------------------------------------------------------------- C19
HexChars ==
    {"0", "1", "2", "3", "4", "5", "6", "7", "8", "9",
     "a", "b", "c", "d", "e", "f", "A", "B", "C", "D", "E", "F"}

IsHex(s) == \A i \in DOMAIN s : s[i] \in HexChars

\* the indices of the hyphens of s
Hyphens(s) == {i \in DOMAIN s : s[i] = "-"}

\* C19: try_parse succeeds exactly on "sha512-<hex>" where what follows the
\* first hyphen decodes to 512 bits; it fails without a hyphen, on another
\* or an empty kind ("unknown hash type"), on hex that is odd or no hex
\* ("decoding hex digest"), and on another decoded length, none included
\* ("wrong digest length" with the bits found).
C19_TryParse ==
    (call.fn = "try_parse" /\ ret # Running) =>
        IF Hyphens(call.input) = {}
        THEN ret = RetErr(<<"failed to detect hash-type and digest">>)
        ELSE LET k == CHOOSE i \in Hyphens(call.input) :
                          \A j \in Hyphens(call.input) : i <= j
                 kind == SubSeq(call.input, 1, k - 1)
                 hex == SubSeq(call.input, k + 1, Len(call.input))
             IN IF kind # <<"s", "h", "a", "5", "1", "2">>
                THEN ret = RetErr(<<"unknown hash type">>)
                ELSE IF ~IsHex(hex) \/ Len(hex) % 2 = 1
                THEN ret.state = "err" /\ ret.chain[1] = "decoding hex digest"
                ELSE IF Len(hex) * 4 # 512
                THEN ret = RetErr(<<"wrong digest length ("
                                    \o ToString(Len(hex) * 4) \o ")">>)
                ELSE /\ ret.state = "ok"
                     /\ ret.val.kind = "sha512"
                     /\ Len(ret.val.digest) * 8 = 512

\* a digest of 128 digits of both cases was parsed to 64 bytes
C19_Witness ==
    /\ call.fn = "try_parse"
    /\ call.input = <<"s", "h", "a", "5", "1", "2", "-">> \o Repeat(<<"c", "F">>, 64)
    /\ ret = RetOk(Sha512([i \in 1..64 |-> 207]))

\* ---------------------------------------------------------------- C21
\* edit_bls_entries is called: by write_disk for the kargs, or by
\* write_platform for a platform other than "metal"
EditCall ==
    \/ call.fn = "edit_bls_entries"
    \/ call.fn = "write_platform" /\ call.platform # Metal

\* the transform it is called with
EditTransform ==
    IF call.fn = "edit_bls_entries" THEN call.f
    ELSE [fn |-> "bls_entry_write_platform", platform |-> call.platform]

\* the call returns: files other than .conf files are as they were; after a
\* success every .conf file holds the transform's output for what it held;
\* after a failure of the transform on entry b, entry b and the entries
\* after it are as they were and no operation was made on the latter, and
\* the .conf entries before b hold the transform's output
EditReturns ==
    /\ Len(fs'.entries) = Len(fs.entries)
    /\ \A i \in DOMAIN fs.entries :
          fs.entries[i].ext # "conf" => fs'.entries[i] = fs.entries[i]
    /\ ret' = Ok =>
          \A i \in DOMAIN fs.entries :
              fs.entries[i].ext = "conf" =>
                  fs'.entries[i] =
                      [ext |-> "conf",
                       content |-> Transform(EditTransform, fs.entries[i].content).val]
    /\ (ret'.state = "err" /\ ret'.chain[1] = "modifying entry") =>
          \E b \in DOMAIN fs.entries :
              /\ fs.entries[b].ext = "conf"
              /\ Transform(EditTransform, fs.entries[b].content).state = "err"
              /\ \A j \in DOMAIN fs.entries :
                    /\ j >= b => fs'.entries[j] = fs.entries[j]
                    /\ j > b => \A k \in DOMAIN fs'.ops : fs'.ops[k].at # j
                    /\ (j < b /\ fs.entries[j].ext = "conf") =>
                          fs'.entries[j].content =
                              Transform(EditTransform, fs.entries[j].content).val

\* C21: edit_bls_entries changes only what the transform produced: after a
\* success every .conf file of loader/entries holds exactly the transform's
\* output for its previous content and every other file is unchanged; when
\* the transform fails on an entry, that entry keeps its content, no further
\* entry is processed and the entries processed before keep their new
\* content.
C21_TransformOnly ==
    [][(EditCall /\ ret = Running /\ ret' # Running) => EditReturns]_vars

\* what does hold: the same, when no write is a short write
C21_FullWrites ==
    [][(EditCall /\ ret = Running /\ ret' # Running /\ fs.fault.op # "short_write")
          => EditReturns]_vars

====
